---- MODULE Spec2Model ----
(***************************************************************************)
(* A model of the address resolver (getBestAccessURL), the public-IP probe *)
(* (getPublicIP), the TVBOX subscription parser (the POST handler of       *)
(* parse-subscription) and the admin permission check                      *)
(* (checkAdminPermission) of MoonTVPlus.                                   *)
(*                                                                         *)
(* JavaScript values are records [t |-> <type tag>, v |-> <payload>].      *)
(* A JavaScript string is a sequence of one-character strings, so that     *)
(* includes, new URL, encodeURIComponent and decodeURIComponent are        *)
(* computed character by character.  The messages of the handler's error   *)
(* responses are TLA+ strings (English renderings of the source's text).   *)
(***************************************************************************)
EXTENDS Integers, Sequences, FiniteSets, TLC

VARIABLES
    pc,            \* position of the operation in progress
    ctx,           \* getBestAccessURL: the ambient context and the arguments of the call
    bestURL,       \* getBestAccessURL: the outcome of the call
    reqBody,       \* POST: the outcome of request.json()
    upstream,      \* POST: the outcome of fetch(url)
    httpResponse,  \* POST: the NextResponse the handler returns
    serviceIdx,    \* getPublicIP: index in services of the next service to contact
    contacted,     \* getPublicIP: the services fetched so far, in order
    replies,       \* getPublicIP: what each contacted service answered
    publicIP,      \* getPublicIP: the outcome of the call
    adminCall,     \* checkAdminPermission: the environment and the cookie of the call
    storeReply,    \* checkAdminPermission: the outcome of db.getUserInfoV2(username)
    configReply,   \* checkAdminPermission: the outcome of getConfig()
    permission     \* checkAdminPermission: the outcome of the call

adminVars == <<adminCall, storeReply, configReply, permission>>

vars == <<pc, ctx, bestURL, reqBody, upstream, httpResponse,
          serviceIdx, contacted, replies, publicIP, adminVars>>

----------------------------------------------------------------------------
(* Bounds of the model.                                                    *)

\* longest tail, in characters, appended to an address when API strings are enumerated
MaxTail == 3
\* most site and live entries, together, in one subscription document
MaxEntries == 2
\* most users in config.UserConfig.Users
MaxUsers == 2

----------------------------------------------------------------------------
(* JavaScript values.                                                      *)

Undefined == [t |-> "undefined"]
Null == [t |-> "null"]
Str(s) == [t |-> "string", v |-> s]
Num(n) == [t |-> "number", v |-> n]
Obj(fields) == [t |-> "object", v |-> fields]
Arr(elems) == [t |-> "array", v |-> elems]
Bool(b) == [t |-> "boolean", v |-> b]

\* the fields of {}
NoFields == [k \in {} |-> Undefined]

\* a thrown exception, as the value of an expression that does not complete
Throw(name) == [t |-> "throw", v |-> name]
IsThrow(x) == x.t = "throw"

\* ToBoolean: the operand test of ||, ! and if
Truthy(x) ==
    CASE x.t = "undefined" -> FALSE
      [] x.t = "null" -> FALSE
      [] x.t = "string" -> x.v # <<>>
      [] x.t = "number" -> x.v # 0
      [] x.t = "boolean" -> x.v
      [] OTHER -> TRUE

\* a || b
Or(a, b) == IF Truthy(a) THEN a ELSE b

\* x.k : a property read; reading a property of null or undefined throws
Prop(x, k) ==
    CASE x.t \in {"null", "undefined"} -> Throw("TypeError")
      [] x.t = "object" -> IF k \in DOMAIN x.v THEN x.v[k] ELSE Undefined
      [] OTHER -> Undefined

----------------------------------------------------------------------------
(* Character strings.                                                      *)

\* the characters of the model with their ASCII codes
Ascii ==
    { <<"\n", 10>>, <<" ", 32>>, <<"\"", 34>>, <<"#", 35>>, <<"%", 37>>,
      <<"&", 38>>, <<"+", 43>>, <<"/", 47>>, <<":", 58>>, <<"=", 61>>,
      <<"?", 63>>, <<"R", 82>>, <<"U", 85>> }

Ord(c) == (CHOOSE p \in Ascii : p[1] = c)[2]
Chr(n) == (CHOOSE p \in Ascii : p[2] = n)[1]

HexDigits == <<"0", "1", "2", "3", "4", "5", "6", "7",
               "8", "9", "A", "B", "C", "D", "E", "F">>
LowerHex == <<"0", "1", "2", "3", "4", "5", "6", "7",
              "8", "9", "a", "b", "c", "d", "e", "f">>

IsHex(c) == \E i \in 1..16 : HexDigits[i] = c \/ LowerHex[i] = c
HexVal(c) == (CHOOSE i \in 1..16 : HexDigits[i] = c \/ LowerHex[i] = c) - 1

Digits == {"0", "1", "2", "3", "4", "5", "6", "7", "8", "9"}
Letters == {"a", "b", "c", "d", "e", "f", "g", "h", "i", "j", "k", "l", "m",
            "n", "o", "p", "q", "r", "s", "t", "u", "v", "w", "x", "y", "z",
            "A", "B", "C", "D", "E", "F", "G", "H", "I", "J", "K", "L", "M",
            "N", "O", "P", "Q", "R", "S", "T", "U", "V", "W", "X", "Y", "Z"}

\* s.substring(i - 1), 1-based
Drop(s, i) == SubSeq(s, i, Len(s))
\* s.substring(0, n)
Take(s, n) == SubSeq(s, 1, n)

\* s.startsWith(p) at 1-based position i
MatchAt(s, p, i) == i + Len(p) - 1 <= Len(s) /\ SubSeq(s, i, i + Len(p) - 1) = p

\* String.prototype.includes
Includes(s, p) == \E i \in 1..(Len(s) + 1) : MatchAt(s, p, i)

\* the least index of s holding a character of cs, or 0
IndexOfAny(s, cs) ==
    IF \E i \in 1..Len(s) : s[i] \in cs
    THEN CHOOSE i \in 1..Len(s) : s[i] \in cs /\ \A j \in 1..(i - 1) : s[j] \notin cs
    ELSE 0

RECURSIVE Split(_, _)
\* s.split(c)
Split(s, c) ==
    LET i == IndexOfAny(s, {c})
    IN  IF i = 0 THEN <<s>> ELSE <<Take(s, i - 1)>> \o Split(Drop(s, i + 1), c)

WhiteSpace == {" ", "\n"}

RECURSIVE trim(_)
\* String.prototype.trim
trim(s) ==
    IF s = <<>> THEN s
    ELSE IF s[1] \in WhiteSpace THEN trim(Drop(s, 2))
    ELSE IF s[Len(s)] \in WhiteSpace THEN trim(Take(s, Len(s) - 1))
    ELSE s

----------------------------------------------------------------------------
(* Percent-encoding.                                                       *)

\* the characters encodeURIComponent leaves alone
UriUnreserved == Letters \cup Digits \cup {"-", "_", ".", "!", "~", "*", "'", "(", ")"}

PercentEncode(c) == <<"%", HexDigits[(Ord(c) \div 16) + 1], HexDigits[(Ord(c) % 16) + 1]>>

RECURSIVE encodeURIComponent(_)
encodeURIComponent(s) ==
    IF s = <<>> THEN <<>>
    ELSE (IF s[1] \in UriUnreserved THEN <<s[1]>> ELSE PercentEncode(s[1]))
         \o encodeURIComponent(Drop(s, 2))

\* is s[i] the start of a %XX escape
EscapeAt(s, i) == s[i] = "%" /\ i + 2 <= Len(s) /\ IsHex(s[i + 1]) /\ IsHex(s[i + 2])
EscapedChar(s, i) == Chr(16 * HexVal(s[i + 1]) + HexVal(s[i + 2]))

RECURSIVE decodeURIComponent(_)
\* the decoded string, or URIError when a % does not start an escape
decodeURIComponent(s) ==
    IF s = <<>> THEN Str(<<>>)
    ELSE IF s[1] # "%"
         THEN LET r == decodeURIComponent(Drop(s, 2))
              IN  IF IsThrow(r) THEN r ELSE Str(<<s[1]>> \o r.v)
    ELSE IF ~EscapeAt(s, 1) THEN Throw("URIError")
    ELSE LET r == decodeURIComponent(Drop(s, 4))
         IN  IF IsThrow(r) THEN r ELSE Str(<<EscapedChar(s, 1)>> \o r.v)

RECURSIVE FormDecode(_)
\* application/x-www-form-urlencoded decoding of one name or value: + is a
\* space, %XX is the character, and a % that starts no escape stays as it is
FormDecode(s) ==
    IF s = <<>> THEN <<>>
    ELSE IF s[1] = "+" THEN <<" ">> \o FormDecode(Drop(s, 2))
    ELSE IF EscapeAt(s, 1) THEN <<EscapedChar(s, 1)>> \o FormDecode(Drop(s, 4))
    ELSE <<s[1]>> \o FormDecode(Drop(s, 2))

----------------------------------------------------------------------------
(* new URL(s) and URL.searchParams, after the WHATWG URL standard.         *)

SchemeChars == Letters \cup Digits \cup {"+", "-", "."}
sHttp == <<"h", "t", "t", "p">>
SpecialSchemes == {sHttp, sHttp \o <<"s">>}
\* characters a host may not hold
ForbiddenHost == {" ", "#", "%", "/", "<", ">", "?", "@", "[", "\\", "]", "^", "|"}
\* characters the parser percent-encodes in the query of a special URL
QueryEncodeSet == {" ", "\"", "#", "<", ">", "'"}

RECURSIVE SkipSlashes(_)
SkipSlashes(s) == IF s # <<>> /\ s[1] \in {"/", "\\"} THEN SkipSlashes(Drop(s, 2)) ELSE s

RECURSIVE RemoveNewlines(_)
RemoveNewlines(s) ==
    IF s = <<>> THEN <<>>
    ELSE (IF s[1] = "\n" THEN <<>> ELSE <<s[1]>>) \o RemoveNewlines(Drop(s, 2))

RECURSIVE QueryEncode(_)
QueryEncode(s) ==
    IF s = <<>> THEN <<>>
    ELSE (IF s[1] \in QueryEncodeSet THEN PercentEncode(s[1]) ELSE <<s[1]>>)
         \o QueryEncode(Drop(s, 2))

\* the part of r between its first ? and its first #
QueryOf(r) ==
    LET hash == IndexOfAny(r, {"#"})
        beforeHash == IF hash = 0 THEN r ELSE Take(r, hash - 1)
        q == IndexOfAny(beforeHash, {"?"})
    IN  IF q = 0 THEN <<>> ELSE QueryEncode(Drop(beforeHash, q + 1))

\* host[:port] is acceptable: a non-empty host of allowed characters, a port of digits
ValidHostPort(hp) ==
    LET colon == IndexOfAny(hp, {":"})
        host == IF colon = 0 THEN hp ELSE Take(hp, colon - 1)
        port == IF colon = 0 THEN <<>> ELSE Drop(hp, colon + 1)
    IN  /\ host # <<>>
        /\ \A i \in 1..Len(host) : host[i] \notin ForbiddenHost
        /\ \A i \in 1..Len(port) : port[i] \in Digits

\* new URL(input).search without its leading ?, or TypeError (Invalid URL).
\* There is no base URL, so the input needs a scheme; a special scheme needs a host.
URLQuery(input) ==
    LET s == RemoveNewlines(trim(input))
        colon == IndexOfAny(s, {":"})
        scheme == Take(s, colon - 1)
        rest == Drop(s, colon + 1)
    IN  IF \/ colon <= 1
           \/ s[1] \notin Letters
           \/ \E i \in 1..Len(scheme) : scheme[i] \notin SchemeChars
        THEN Throw("TypeError")
        ELSE IF scheme \in SpecialSchemes
        THEN LET a == SkipSlashes(rest)
                 e == IndexOfAny(a, {"/", "\\", "?", "#"})
                 authority == IF e = 0 THEN a ELSE Take(a, e - 1)
                 after == IF e = 0 THEN <<>> ELSE Drop(a, e)
             IN  IF ValidHostPort(authority) THEN Str(QueryOf(after)) ELSE Throw("TypeError")
        ELSE Str(QueryOf(rest))

RECURSIVE FirstParam(_, _)
FirstParam(pieces, name) ==
    IF pieces = <<>> THEN Null
    ELSE LET p == Head(pieces)
             eq == IndexOfAny(p, {"="})
             n == IF eq = 0 THEN p ELSE Take(p, eq - 1)
             val == IF eq = 0 THEN <<>> ELSE Drop(p, eq + 1)
         IN  IF p # <<>> /\ FormDecode(n) = name
             THEN Str(FormDecode(val))
             ELSE FirstParam(Tail(pieces), name)

\* new URLSearchParams(query).get(name): the first value of name, decoded, or null
searchParamsGet(query, name) == FirstParam(Split(query, "&"), name)

----------------------------------------------------------------------------
(* The subscription parser.                                                *)

sApi == <<"a", "p", "i">>
\* '/api/cms-proxy?api='
ProxyMarker == <<"/">> \o sApi \o <<"/", "c", "m", "s", "-", "p", "r", "o", "x", "y", "?">>
               \o sApi \o <<"=">>

\* apiUrlOf without its try/catch: a URL that does not parse, or a parameter
\* that does not decode, leaves the map callback as an exception
apiUrlOf_Uncaught(site) ==
    LET apiUrl == Or(Prop(site, "api"), Str(<<>>))
    IN  IF apiUrl.t # "string" THEN Throw("TypeError")
        ELSE IF ~Includes(apiUrl.v, ProxyMarker) THEN apiUrl
        ELSE LET urlObj == URLQuery(apiUrl.v)
             IN  IF IsThrow(urlObj) THEN urlObj
                 ELSE LET originalApi == searchParamsGet(urlObj.v, sApi)
                      IN  IF ~Truthy(originalApi) THEN apiUrl
                          ELSE decodeURIComponent(originalApi.v)

\* let apiUrl = site.api || ''; then the unwrapping of a proxied address
apiUrlOf(site) ==
    LET apiUrl == Or(Prop(site, "api"), Str(<<>>))
    IN  IF apiUrl.t # "string" THEN Throw("TypeError")  \* apiUrl.includes is not a function
        ELSE IF ~Includes(apiUrl.v, ProxyMarker) THEN apiUrl
        ELSE LET urlObj == URLQuery(apiUrl.v)
             IN  IF IsThrow(urlObj) THEN apiUrl
                 ELSE LET originalApi == searchParamsGet(urlObj.v, sApi)
                      IN  IF ~Truthy(originalApi) THEN apiUrl
                          ELSE LET decoded == decodeURIComponent(originalApi.v)
                               IN  IF IsThrow(decoded) THEN apiUrl ELSE decoded

\* the type filter with == in place of ===: the string '1' passes
IsVideoSource_Loose(site) == Prop(site, "type") \in {Num(1), Str(<<"1">>)}

\* .filter((site) => site.type === 1)
IsVideoSource(site) == Prop(site, "type") = Num(1)

\* the object the map callback returns for one site
toParsedSite(site) ==
    [ name |-> Or(Prop(site, "name"), Str(<<>>)),
      key |-> Or(Prop(site, "key"), Str(<<>>)),
      api |-> apiUrlOf(site),
      detail |-> Or(Prop(site, "ext"), Str(<<>>)) ]

\* .filter((site) => site.api && site.name)
IsValidSite(site) == Truthy(site.api) /\ Truthy(site.name)

\* parsedSites: an array, or the exception that leaves the chain
parseSites(subscriptionData) ==
    LET field == Prop(subscriptionData, "sites")
        sites == Or(field, Arr(<<>>))
    IN  IF IsThrow(field) THEN field
        ELSE IF sites.t # "array" THEN Throw("TypeError")  \* sites.filter is not a function
        ELSE IF \E i \in 1..Len(sites.v) : IsThrow(Prop(sites.v[i], "type"))
        THEN Throw("TypeError")
        ELSE LET kept == SelectSeq(sites.v, IsVideoSource)
                 mapped == [i \in 1..Len(kept) |-> toParsedSite(kept[i])]
             IN  IF \E i \in 1..Len(mapped) : IsThrow(mapped[i].api)
                 THEN Throw("TypeError")
                 ELSE Arr(SelectSeq(mapped, IsValidSite))

\* the object the map callback returns for one live entry
toParsedLive(live) ==
    [ name |-> Or(Prop(live, "name"), Str(<<>>)),
      url |-> Or(Prop(live, "url"), Str(<<>>)),
      epg |-> Or(Prop(live, "epg"), Str(<<>>)),
      ua |-> Or(Prop(live, "ua"), Str(<<>>)) ]

\* the live filter without its name test
IsValidLive_UrlOnly(live) == Truthy(live.url)

\* .filter((live) => live.url && live.name)
IsValidLive(live) == Truthy(live.url) /\ Truthy(live.name)

\* parsedLives: an array, or the exception that leaves the chain
parseLives(subscriptionData) ==
    LET field == Prop(subscriptionData, "lives")
        lives == Or(field, Arr(<<>>))
    IN  IF IsThrow(field) THEN field
        ELSE IF lives.t # "array" THEN Throw("TypeError")  \* lives.map is not a function
        ELSE IF \E i \in 1..Len(lives.v) : IsThrow(Prop(lives.v[i], "name"))
        THEN Throw("TypeError")
        ELSE LET mapped == [i \in 1..Len(lives.v) |-> toParsedLive(lives.v[i])]
             IN  Arr(SelectSeq(mapped, IsValidLive))

----------------------------------------------------------------------------
(* The responses of the POST handler.                                      *)

NoData == [sites |-> <<>>, lives |-> <<>>, totalSites |-> -1, totalLives |-> -1]
None == [t |-> "none"]

ErrNoUrl == "no subscription url supplied"
ErrFetchFailed == "fetching the subscription failed: <status> <statusText>"
ErrNotJson == "subscription content is not valid JSON"
ErrParseFailed == "parsing the subscription failed"

\* NextResponse.json({ error }, { status })
ErrorResponse(status, error, details) ==
    [t |-> "response", status |-> status, success |-> FALSE, error |-> error,
     details |-> details, data |-> NoData]

\* NextResponse.json({ success: true, data: {...} })
SuccessResponse(parsedSites, parsedLives) ==
    [t |-> "response", status |-> 200, success |-> TRUE, error |-> "", details |-> "",
     data |-> [sites |-> parsedSites, lives |-> parsedLives,
               totalSites |-> Len(parsedSites), totalLives |-> Len(parsedLives)]]

\* the catch block of the handler
InternalFault(exception) == ErrorResponse(500, ErrParseFailed, exception.v)

\* 'application/json'
sApplicationJson == <<"a", "p", "p", "l", "i", "c", "a", "t", "i", "o", "n", "/",
                      "j", "s", "o", "n">>

\* JSON.parse(text) and response.json(): the value, or SyntaxError
JSONparse(body) == IF body.valid THEN body.value ELSE Throw("SyntaxError")

\* the handler from the content-type test to its return
parseResponse(response) ==
    LET contentType == Or(response.contentType, Str(<<>>))
        subscriptionData == JSONparse(response.body)
    IN  IF IsThrow(subscriptionData)
        THEN IF Includes(contentType.v, sApplicationJson)
             THEN InternalFault(subscriptionData)
             ELSE ErrorResponse(400, ErrNotJson, "")
        ELSE LET parsedSites == parseSites(subscriptionData)
                 parsedLives == parseLives(subscriptionData)
             IN  IF IsThrow(parsedSites) THEN InternalFault(parsedSites)
                 ELSE IF IsThrow(parsedLives) THEN InternalFault(parsedLives)
                 ELSE SuccessResponse(parsedSites.v, parsedLives.v)

----------------------------------------------------------------------------
(* getBestAccessURL.                                                       *)

\* 'http://localhost:3000'
DefaultURL == sHttp \o <<":", "/", "/", "l", "o", "c", "a", "l", "h", "o", "s", "t",
                         ":", "3", "0", "0", "0">>

\* getBestAccessURL with dbSiteBase tested before SITE_BASE
getBestAccessURL_DbFirst(window, SITE_BASE, currentOrigin, port, dbSiteBase) ==
    IF window.t = "undefined" /\ Truthy(dbSiteBase) THEN dbSiteBase
    ELSE IF window.t = "undefined" /\ Truthy(SITE_BASE) THEN SITE_BASE
    ELSE IF Truthy(currentOrigin) THEN currentOrigin
    ELSE IF window.t # "undefined" THEN Prop(Prop(window, "location"), "origin")
    ELSE Str(DefaultURL)

\* getBestAccessURL with currentOrigin tested before dbSiteBase
getBestAccessURL_OriginFirst(window, SITE_BASE, currentOrigin, port, dbSiteBase) ==
    IF window.t = "undefined" /\ Truthy(SITE_BASE) THEN SITE_BASE
    ELSE IF Truthy(currentOrigin) THEN currentOrigin
    ELSE IF window.t = "undefined" /\ Truthy(dbSiteBase) THEN dbSiteBase
    ELSE IF window.t # "undefined" THEN Prop(Prop(window, "location"), "origin")
    ELSE Str(DefaultURL)

\* getBestAccessURL without its window.location.origin fallback
getBestAccessURL_NoPageOrigin(window, SITE_BASE, currentOrigin, port, dbSiteBase) ==
    IF window.t = "undefined" /\ Truthy(SITE_BASE) THEN SITE_BASE
    ELSE IF window.t = "undefined" /\ Truthy(dbSiteBase) THEN dbSiteBase
    ELSE IF Truthy(currentOrigin) THEN currentOrigin
    ELSE Str(DefaultURL)

\* window is undefined on the server; SITE_BASE is process.env.SITE_BASE
getBestAccessURL(window, SITE_BASE, currentOrigin, port, dbSiteBase) ==
    IF window.t = "undefined" /\ Truthy(SITE_BASE) THEN SITE_BASE
    ELSE IF window.t = "undefined" /\ Truthy(dbSiteBase) THEN dbSiteBase
    ELSE IF Truthy(currentOrigin) THEN currentOrigin
    ELSE IF window.t # "undefined" THEN Prop(Prop(window, "location"), "origin")
    ELSE Str(DefaultURL)

----------------------------------------------------------------------------
(* getPublicIP.                                                            *)

services == << "https://api.ipify.org?format=json",
               "https://api.ip.sb/ip",
               "https://ifconfig.me/ip" >>

\* /^[0-9.]+$/.test(ip)
IpRegexTest(ip) == ip # <<>> /\ \A i \in 1..Len(ip) : ip[i] \in Digits \cup {"."}

\* what one pass of the loop body yields for a reply: the value returned, or
\* None when the loop goes on to the next service
tryService(reply) ==
    IF reply.kind # "response" THEN None            \* fetch rejected: network error or timeout
    ELSE IF ~reply.ok THEN None
    ELSE IF reply.body.kind # "text" THEN None      \* response.text() rejected
    ELSE LET text == reply.body.text
             json == JSONparse(reply.body)
             ipField == IF IsThrow(json) THEN json ELSE Prop(json, "ip")
         IN  IF IsThrow(ipField)
             THEN LET ip == trim(text)
                  IN  IF ip # <<>> /\ IpRegexTest(ip) THEN Str(ip) ELSE None
             ELSE IF Truthy(ipField) THEN ipField ELSE None

----------------------------------------------------------------------------
(* The inputs the operations are run on.                                   *)

\* 'http://' + host
Addr(host) == sHttp \o <<":", "/", "/">> \o host

EnvAddr == Addr(<<"e", "n", "v">>)
DbAddr == Addr(<<"d", "b">>)
OriginAddr == Addr(<<"o", "r", "g">>)
PageAddr == Addr(<<"p", "a", "g", "e">>)
WindowAt(origin) == Obj([location |-> Obj([origin |-> Str(origin)])])

\* the wrapping of an API address: 'http://host/api/cms-proxy?api=' + encodeURIComponent(u)
ProxyPrefix == Addr(<<"h", "o", "s", "t">>) \o ProxyMarker
Wrap(u) == ProxyPrefix \o encodeURIComponent(u)

\* original API addresses: 'http://r/' followed by a short tail
OrigPrefix == Addr(<<"r">>) \o <<"/">>
TailAlphabet == {"r", "%", "2", "5", "+", "&", "#"}
Tails == UNION {[1..n -> TailAlphabet] : n \in 0..MaxTail}
Originals == {OrigPrefix \o t : t \in Tails}

\* raw api fields: the proxy prefix, the marker without a scheme, the marker
\* as the value of another parameter, and an address without the marker, each
\* followed by a tail; and the wrappings of the original addresses
Heads == { ProxyPrefix,
           ProxyMarker,
           Addr(<<"h">>) \o <<"/", "?", "u", "=">> \o ProxyMarker,
           Addr(<<"x">>) \o <<"/">> }
RawApis == {<<>>} \cup {h \o t : h \in Heads, t \in Tails} \cup {Wrap(u) : u \in Originals}

sA == Str(<<"A">>)
sK == Str(<<"k">>)
sE == Str(<<"e">>)
PlainApi == Str(Addr(<<"x">>))

\* a site record of type 1 with the given api, and the record parsed beside it
SiteWithApi(api) == Obj([type |-> Num(1), name |-> sA, key |-> sK, api |-> Str(api)])
Companion == Obj([type |-> Num(1), name |-> Str(<<"B">>), api |-> Str(Addr(<<"y">>))])

\* site entries: well-formed records, records lacking a field, records of
\* another type, and malformed entries
SiteSamples ==
    { Obj([type |-> Num(1), name |-> sA, api |-> PlainApi, key |-> sK]),
      Obj([type |-> Num(2), name |-> Str(<<"B">>), api |-> Str(Addr(<<"y">>))]),
      Obj([type |-> Str(<<"1">>), name |-> sA, api |-> PlainApi]),
      Obj([name |-> sA, api |-> PlainApi]),
      Obj([type |-> Num(1), name |-> Str(<<>>), api |-> PlainApi, key |-> sK, ext |-> sE]),
      Obj([type |-> Num(1), name |-> Null, api |-> PlainApi]),
      Obj([type |-> Num(1), name |-> Str(<<"C">>)]),
      Obj([type |-> Num(1), name |-> Str(<<"W">>), api |-> Str(Wrap(OrigPrefix)), ext |-> sE]),
      Obj([type |-> Num(1), name |-> Str(<<"V">>), api |-> Str(ProxyPrefix)]),
      Obj([type |-> Num(1), name |-> Str(<<"N">>), api |-> Num(7)]),
      Obj([type |-> Num(1), name |-> Num(7), api |-> PlainApi]),
      Num(5),
      Null }

LiveUrl == Str(Addr(<<"l">>))
LiveSamples ==
    { Obj([name |-> Str(<<"L">>), url |-> LiveUrl]),
      Obj([name |-> Str(<<"M">>), url |-> Str(Wrap(OrigPrefix)), epg |-> sE, ua |-> Str(<<"u">>)]),
      Obj([name |-> Str(<<>>), url |-> LiveUrl]),
      Obj([name |-> Str(<<"L">>), epg |-> sE]),
      Num(5),
      Null }

SeqsUpTo(S, n) == UNION {[1..k -> S] : k \in 0..n}

\* a document with the given sites and lives fields; Undefined leaves the field out
Document(sites, lives) ==
    CASE sites = Undefined /\ lives = Undefined -> Obj(NoFields)
      [] sites = Undefined /\ lives # Undefined -> Obj([lives |-> lives])
      [] sites # Undefined /\ lives = Undefined -> Obj([sites |-> sites])
      [] OTHER -> Obj([sites |-> sites, lives |-> lives])

FieldLen(f) == IF f.t = "array" THEN Len(f.v) ELSE 0

\* the JSON values a subscription body can hold
Documents ==
    { Null, Num(5), Document(Str(<<"x">>), Undefined), Document(Undefined, Num(5)),
      Document(Null, Null) }
    \cup { Document(s, l) :
             <<s, l>> \in { q \in ({Undefined} \cup {Arr(x) : x \in SeqsUpTo(SiteSamples, MaxEntries)})
                                  \X ({Undefined} \cup {Arr(x) : x \in SeqsUpTo(LiveSamples, MaxEntries)}) :
                            FieldLen(q[1]) + FieldLen(q[2]) <= MaxEntries } }

NotJson == [valid |-> FALSE, value |-> Null]
Json(value) == [valid |-> TRUE, value |-> value]

SubscriptionURL == Addr(<<"s">>)
RequestBodies ==
    { NotJson, Json(Null), Json(Obj(NoFields)), Json(Obj([url |-> Str(<<>>)])),
      Json(Obj([url |-> Str(SubscriptionURL)])) }

ContentTypes ==
    { Null,
      Str(sApplicationJson),
      Str(sApplicationJson \o <<";", " ", "c", "h", "a", "r", "s", "e", "t", "=", "u", "t", "f", "-", "8">>),
      Str(<<"t", "e", "x", "t", "/", "p", "l", "a", "i", "n">>) }

Rejected == [kind |-> "reject", ok |-> FALSE, contentType |-> Null, body |-> NotJson]
Response(ok, contentType, body) ==
    [kind |-> "response", ok |-> ok, contentType |-> contentType, body |-> body]

\* what fetch(url) can come to
FetchOutcomes ==
    {Rejected, Response(FALSE, Null, NotJson)}
    \cup {Response(TRUE, c, NotJson) : c \in ContentTypes}
    \cup {Response(TRUE, c, Json(d)) : c \in ContentTypes, d \in Documents}

\* the bodies an IP service can answer with: the text and what JSON.parse makes of it
TextBody(text, valid, value) == [kind |-> "text", text |-> text, valid |-> valid, value |-> value]
sIp == <<"1", ".", "2", ".", "3", ".", "4">>
sQuotedIpKey == <<"{", "\"", "i", "p", "\"", ":">>
IpBodies ==
    { TextBody(sIp, FALSE, Null),
      TextBody(<<" ">> \o sIp \o <<"\n">>, FALSE, Null),
      TextBody(<<>>, FALSE, Null),
      TextBody(<<"<", "h", "t", "m", "l", ">">>, FALSE, Null),
      TextBody(sQuotedIpKey \o <<"\"">> \o sIp \o <<"\"", "}">>, TRUE, Obj([ip |-> Str(sIp)])),
      TextBody(sQuotedIpKey \o <<"\"", "a", "b", "c", "\"", "}">>, TRUE,
               Obj([ip |-> Str(<<"a", "b", "c">>)])),
      TextBody(sQuotedIpKey \o <<"\"", "\"", "}">>, TRUE, Obj([ip |-> Str(<<>>)])),
      TextBody(<<"{", "}">>, TRUE, Obj(NoFields)),
      TextBody(<<"n", "u", "l", "l">>, TRUE, Null),
      TextBody(<<"1", "2">>, TRUE, Num(12)),
      [kind |-> "error", text |-> <<>>, valid |-> FALSE, value |-> Null] }

\* what fetch(service) can come to
ServiceReplies ==
    { [kind |-> "reject", ok |-> FALSE, body |-> TextBody(<<>>, FALSE, Null)],
      [kind |-> "response", ok |-> FALSE, body |-> TextBody(<<>>, FALSE, Null)] }
    \cup { [kind |-> "response", ok |-> TRUE, body |-> b] : b \in IpBodies }

----------------------------------------------------------------------------
(* checkAdminPermission.                                                   *)

\* 'localstorage'
sLocalstorage == <<"l", "o", "c", "a", "l", "s", "t", "o", "r", "a", "g", "e">>
\* 'admin'
sAdmin == <<"a", "d", "m", "i", "n">>

ErrLocalStorage == "admin operations are not supported on local storage"
ErrUnauthorized == "unauthorized"
ErrForbidden == "insufficient permission"
ErrServer == "server error"

\* { success: true, username, role }
Granted(username, role) == [success |-> TRUE, username |-> username, role |-> role]
\* { success: false, response: NextResponse.json({ error }, { status }) }
Refused(status, error) == [success |-> FALSE, status |-> status, error |-> error]

\* the catch block of checkAdminPermission
ServerFault == Refused(500, ErrServer)

\* the part before the lookups: the value returned, or None when the user
\* store is to be asked
checkIdentity(NEXT_PUBLIC_STORAGE_TYPE, USERNAME, authInfo) ==
    LET storageType == Or(NEXT_PUBLIC_STORAGE_TYPE, Str(sLocalstorage))
    IN  IF storageType = Str(sLocalstorage) THEN Refused(400, ErrLocalStorage)
        ELSE IF ~Truthy(authInfo) \/ ~Truthy(Prop(authInfo, "username"))
        THEN Refused(401, ErrUnauthorized)
        ELSE LET username == Prop(authInfo, "username")
             IN  IF username = USERNAME THEN Granted(username, "owner") ELSE None

\* the same, with a store record that is not an admin's or is banned left to
\* the configuration
checkUserInfo_FallsThrough(username, userInfo) ==
    IF IsThrow(userInfo) THEN ServerFault
    ELSE IF Truthy(userInfo)
            /\ Prop(userInfo, "role") = Str(sAdmin) /\ ~Truthy(Prop(userInfo, "banned"))
    THEN Granted(username, "admin")
    ELSE None

\* the part on the outcome of db.getUserInfoV2(username): the value returned,
\* or None when the configuration is to be asked
checkUserInfo(username, userInfo) ==
    IF IsThrow(userInfo) THEN ServerFault
    ELSE IF Truthy(userInfo)
    THEN IF Prop(userInfo, "role") = Str(sAdmin) /\ ~Truthy(Prop(userInfo, "banned"))
         THEN Granted(username, "admin")
         ELSE Refused(403, ErrForbidden)
    ELSE None

\* Users.find((u) => u.username === username)
find(Users, username) ==
    LET hits == {i \in 1..Len(Users) : Prop(Users[i], "username") = username}
    IN  IF hits = {} THEN Undefined
        ELSE Users[CHOOSE i \in hits : \A j \in hits : i <= j]

\* config.UserConfig.Users
UsersOf(config) ==
    LET UserConfig == Prop(config, "UserConfig")
    IN  IF IsThrow(UserConfig) THEN UserConfig ELSE Prop(UserConfig, "Users")

\* the part on the outcome of getConfig()
checkConfig(username, config) ==
    IF IsThrow(config) THEN ServerFault
    ELSE LET Users == UsersOf(config)
         IN  IF IsThrow(Users) \/ Users.t # "array" THEN ServerFault  \* TypeError, caught
             ELSE LET user == find(Users.v, username)
                  IN  IF Truthy(user) /\ Prop(user, "role") = Str(sAdmin)
                         /\ ~Truthy(Prop(user, "banned"))
                      THEN Granted(username, "admin")
                      ELSE Refused(403, ErrForbidden)

\* user names: the owner's and two others'
sOwnerName == <<"r", "o", "o", "t">>
sBob == <<"b", "o", "b">>
sEve == <<"e", "v", "e">>
sUser == <<"u", "s", "e", "r">>
sOwnerRole == <<"o", "w", "n", "e", "r">>

\* process.env.NEXT_PUBLIC_STORAGE_TYPE and process.env.USERNAME
StorageTypes == {Undefined, Str(<<>>), Str(sLocalstorage), Str(<<"r", "e", "d", "i", "s">>)}
OwnerNames == {Undefined, Str(sOwnerName)}

\* what getAuthInfoFromCookie(request) returns
AuthInfos ==
    {Null, Obj(NoFields), Obj([username |-> Str(<<>>)])}
    \cup {Obj([username |-> Str(n)]) : n \in {sOwnerName, sBob}}

\* the role and banned fields of a user record; banned may be left out
Standings ==
    {[role |-> Str(r)] : r \in {sAdmin, sUser, sOwnerRole}}
    \cup {[role |-> Str(r), banned |-> Bool(b)] : r \in {sAdmin, sUser, sOwnerRole},
                                                  b \in BOOLEAN}

\* what db.getUserInfoV2(username) comes to
StoreReplies == {Throw("Error"), Null} \cup {Obj(st) : st \in Standings}

\* an entry of config.UserConfig.Users
UserEntry(username, role, banned) ==
    IF banned = Undefined THEN Obj([username |-> Str(username), role |-> Str(role)])
    ELSE Obj([username |-> Str(username), role |-> Str(role), banned |-> banned])

UserEntries ==
    {UserEntry(n, r, b) : n \in {sBob, sEve}, r \in {sAdmin, sUser},
                          b \in {Undefined, Bool(TRUE)}}

\* what getConfig() comes to
ConfigReplies ==
    {Throw("Error"), Obj(NoFields)}
    \cup {Obj([UserConfig |-> Obj([Users |-> Arr(us)])]) : us \in SeqsUpTo(UserEntries, MaxUsers)}

----------------------------------------------------------------------------
(* The operations.                                                         *)

Init ==
    /\ pc = "idle"
    /\ ctx = None
    /\ bestURL = None
    /\ reqBody = None
    /\ upstream = None
    /\ httpResponse = None
    /\ serviceIdx = 0
    /\ contacted = <<>>
    /\ replies = <<>>
    /\ publicIP = None
    /\ adminCall = None
    /\ storeReply = None
    /\ configReply = None
    /\ permission = None

\* one call of getBestAccessURL, in a server or a client context
Resolve ==
    /\ pc = "idle"
    /\ \E window \in {Undefined, WindowAt(PageAddr)},
          SITE_BASE \in {Undefined, Str(<<>>), Str(EnvAddr)},
          currentOrigin \in {Undefined, Str(<<>>), Str(OriginAddr)},
          port \in {Undefined, Num(3000), Num(8080)},
          dbSiteBase \in {Undefined, Null, Str(<<>>), Str(DbAddr)} :
            /\ ctx' = [window |-> window, SITE_BASE |-> SITE_BASE,
                       currentOrigin |-> currentOrigin, port |-> port,
                       dbSiteBase |-> dbSiteBase]
            /\ bestURL' = getBestAccessURL(window, SITE_BASE, currentOrigin, port, dbSiteBase)
    /\ pc' = "resolved"
    /\ UNCHANGED <<reqBody, upstream, httpResponse, serviceIdx, contacted, replies, publicIP, adminVars>>

\* POST up to the url test: const { url } = await request.json(); if (!url) ...
PostRequest ==
    /\ pc = "idle"
    /\ \E body \in RequestBodies :
         LET json == JSONparse(body)
             url == IF IsThrow(json) THEN json ELSE Prop(json, "url")
         IN  /\ reqBody' = body
             /\ IF IsThrow(url)
                THEN httpResponse' = InternalFault(url) /\ pc' = "responded"
                ELSE IF ~Truthy(url)
                THEN httpResponse' = ErrorResponse(400, ErrNoUrl, "") /\ pc' = "responded"
                ELSE httpResponse' = httpResponse /\ pc' = "fetch"
    /\ UNCHANGED <<ctx, bestURL, upstream, serviceIdx, contacted, replies, publicIP, adminVars>>

\* POST from fetch(url) to the response.ok test
PostFetch ==
    /\ pc = "fetch"
    /\ \E outcome \in FetchOutcomes :
         /\ upstream' = outcome
         /\ IF outcome.kind = "reject"
            THEN httpResponse' = InternalFault(Throw("TypeError")) /\ pc' = "responded"
            ELSE IF ~outcome.ok
            THEN httpResponse' = ErrorResponse(400, ErrFetchFailed, "") /\ pc' = "responded"
            ELSE httpResponse' = httpResponse /\ pc' = "parse"
    /\ UNCHANGED <<ctx, bestURL, reqBody, serviceIdx, contacted, replies, publicIP, adminVars>>

\* POST from the reading of the body to the response
PostParse ==
    /\ pc = "parse"
    /\ httpResponse' = parseResponse(upstream)
    /\ pc' = "responded"
    /\ UNCHANGED <<ctx, bestURL, reqBody, upstream, serviceIdx, contacted, replies, publicIP, adminVars>>

\* getPublicIP is called
ProbeStart ==
    /\ pc = "idle"
    /\ pc' = "probing"
    /\ serviceIdx' = 1
    /\ UNCHANGED <<ctx, bestURL, reqBody, upstream, httpResponse, contacted, replies, publicIP, adminVars>>

\* one pass of the for loop of getPublicIP, and the return after the last one
ProbeService ==
    /\ pc = "probing"
    /\ serviceIdx <= Len(services)
    /\ \E reply \in ServiceReplies :
         LET result == tryService(reply)
         IN  /\ contacted' = Append(contacted, services[serviceIdx])
             /\ replies' = Append(replies, reply)
             /\ IF result # None
                THEN publicIP' = result /\ pc' = "returned" /\ serviceIdx' = serviceIdx
                ELSE IF serviceIdx = Len(services)
                THEN publicIP' = Null /\ pc' = "returned" /\ serviceIdx' = serviceIdx + 1
                ELSE publicIP' = publicIP /\ pc' = pc /\ serviceIdx' = serviceIdx + 1
    /\ UNCHANGED <<ctx, bestURL, reqBody, upstream, httpResponse, adminVars>>

\* checkAdminPermission(request), up to the test for the owner
AdminCheck ==
    /\ pc = "idle"
    /\ \E storageType \in StorageTypes, owner \in OwnerNames, authInfo \in AuthInfos :
         LET result == checkIdentity(storageType, owner, authInfo)
         IN  /\ adminCall' = [NEXT_PUBLIC_STORAGE_TYPE |-> storageType,
                              USERNAME |-> owner, authInfo |-> authInfo]
             /\ IF result # None
                THEN permission' = result /\ pc' = "checked"
                ELSE permission' = permission /\ pc' = "store"
    /\ UNCHANGED <<ctx, bestURL, reqBody, upstream, httpResponse, serviceIdx, contacted,
                   replies, publicIP, storeReply, configReply>>

\* await db.getUserInfoV2(username) and the decision on the record
AdminStoreLookup ==
    /\ pc = "store"
    /\ \E userInfo \in StoreReplies :
         LET result == checkUserInfo(Prop(adminCall.authInfo, "username"), userInfo)
         IN  /\ storeReply' = userInfo
             /\ IF result # None
                THEN permission' = result /\ pc' = "checked"
                ELSE permission' = permission /\ pc' = "config"
    /\ UNCHANGED <<ctx, bestURL, reqBody, upstream, httpResponse, serviceIdx, contacted,
                   replies, publicIP, adminCall, configReply>>

\* await getConfig() and the decision on the entry found
AdminConfigLookup ==
    /\ pc = "config"
    /\ \E config \in ConfigReplies :
         /\ configReply' = config
         /\ permission' = checkConfig(Prop(adminCall.authInfo, "username"), config)
    /\ pc' = "checked"
    /\ UNCHANGED <<ctx, bestURL, reqBody, upstream, httpResponse, serviceIdx, contacted,
                   replies, publicIP, adminCall, storeReply>>

Next ==
    \/ Resolve
    \/ PostRequest
    \/ PostFetch
    \/ PostParse
    \/ ProbeStart
    \/ ProbeService
    \/ AdminCheck
    \/ AdminStoreLookup
    \/ AdminConfigLookup

Spec == Init /\ [][Next]_vars

\* The parser alone, on every raw api of RawApis: the handler has fetched a
\* document of two sites, one of them holding the api.
InitUnwrap ==
    /\ pc = "parse"
    /\ ctx = None
    /\ bestURL = None
    /\ reqBody = Json(Obj([url |-> Str(SubscriptionURL)]))
    /\ \E api \in RawApis, first \in BOOLEAN :
         upstream = Response(TRUE, Null,
                      Json(Document(Arr(IF first THEN <<SiteWithApi(api), Companion>>
                                                 ELSE <<Companion, SiteWithApi(api)>>),
                                    Undefined)))
    /\ httpResponse = None
    /\ serviceIdx = 0
    /\ contacted = <<>>
    /\ replies = <<>>
    /\ publicIP = None
    /\ adminCall = None
    /\ storeReply = None
    /\ configReply = None
    /\ permission = None

SpecUnwrap == InitUnwrap /\ [][PostParse]_vars

----------------------------------------------------------------------------
(* The address resolver: C1, C2, C3.                                       *)

Resolved == pc = "resolved"
ServerContext == ctx.window = Undefined
\* window.location.origin of the call
AmbientOrigin == ctx.window.v.location.v.origin

\* C1: in a server context, whenever SITE_BASE is a non-empty string the
\* call returns exactly SITE_BASE, whatever currentOrigin, port and
\* dbSiteBase are.
C1_EnvBaseWins ==
    Resolved /\ ServerContext /\ Truthy(ctx.SITE_BASE) => bestURL = ctx.SITE_BASE

\* a server call with SITE_BASE, dbSiteBase and currentOrigin all non-empty
C1_Witness ==
    /\ Resolved /\ ServerContext
    /\ Truthy(ctx.SITE_BASE) /\ Truthy(ctx.dbSiteBase) /\ Truthy(ctx.currentOrigin)
    /\ bestURL = Str(EnvAddr)

\* C2 as stated: whenever SITE_BASE is empty or absent and dbSiteBase is
\* non-empty the call returns exactly dbSiteBase, in every context.
C2_PersistedBaseWinsAnywhere ==
    Resolved /\ ~Truthy(ctx.SITE_BASE) /\ Truthy(ctx.dbSiteBase) => bestURL = ctx.dbSiteBase

\* C2 amended: in a server context, whenever SITE_BASE is empty or absent and
\* dbSiteBase is non-empty the call returns exactly dbSiteBase, whatever
\* currentOrigin is.
C2_PersistedBaseWinsOnServer ==
    Resolved /\ ServerContext /\ ~Truthy(ctx.SITE_BASE) /\ Truthy(ctx.dbSiteBase)
        => bestURL = ctx.dbSiteBase

\* a server call without SITE_BASE, with dbSiteBase and currentOrigin non-empty
C2_Witness ==
    /\ Resolved /\ ServerContext
    /\ ~Truthy(ctx.SITE_BASE) /\ Truthy(ctx.dbSiteBase) /\ Truthy(ctx.currentOrigin)
    /\ bestURL = Str(DbAddr)

\* C3: when SITE_BASE and dbSiteBase are both empty or absent the call
\* returns currentOrigin if that is non-empty, and otherwise the page origin
\* in a client context and 'http://localhost:3000' in a server context; every
\* call returns a string and none throws.
C3_OriginThenFallback ==
    Resolved =>
        /\ bestURL.t = "string"
        /\ ~Truthy(ctx.SITE_BASE) /\ ~Truthy(ctx.dbSiteBase) =>
              IF Truthy(ctx.currentOrigin) THEN bestURL = ctx.currentOrigin
              ELSE IF ServerContext THEN bestURL = Str(DefaultURL)
              ELSE bestURL = AmbientOrigin

\* a client call with nothing configured and no origin passed returns the page origin
C3_Witness ==
    /\ Resolved /\ ~ServerContext
    /\ ~Truthy(ctx.SITE_BASE) /\ ~Truthy(ctx.dbSiteBase) /\ ~Truthy(ctx.currentOrigin)
    /\ bestURL = Str(PageAddr)

----------------------------------------------------------------------------
(* The subscription parser: C4 to C9.                                      *)

Responded == pc = "responded"
\* the handler got a success status from upstream
Fetched == upstream # None /\ upstream.kind = "response" /\ upstream.ok
\* the JSON value of the fetched body
FetchedDocument == upstream.body.value

\* the field is there and holds a value
HasValue(r, k) == r.t = "object" /\ k \in DOMAIN r.v /\ r.v[k] # Null
FieldOrEmpty(r, k) == IF HasValue(r, k) THEN r.v[k] ELSE Str(<<>>)
\* the entries of the document's field, none when the field is missing
Entries(doc, k) == IF HasValue(doc, k) /\ doc.v[k].t = "array" THEN doc.v[k].v ELSE <<>>

RECURSIVE ExpectedSites(_)
\* the records of type 1 with a name and an effective api, in input order
ExpectedSites(records) ==
    IF records = <<>> THEN <<>>
    ELSE LET r == Head(records)
             keep == /\ HasValue(r, "type") /\ r.v.type = Num(1)
                     /\ FieldOrEmpty(r, "name") # Str(<<>>)
                     /\ apiUrlOf(r) # Str(<<>>)
         IN  (IF keep
              THEN << [ name |-> r.v.name, key |-> FieldOrEmpty(r, "key"),
                        api |-> apiUrlOf(r), detail |-> FieldOrEmpty(r, "ext") ] >>
              ELSE <<>>)
             \o ExpectedSites(Tail(records))

\* C4: the parsed sites are exactly the input records with type === 1 and a
\* non-empty name and effective api, in input order, each as {name, key or
\* "", effective api, ext or "" as detail}; a missing sites field gives none.
C4_SitesAreTheValidVideoSources ==
    Responded /\ httpResponse.success
        => httpResponse.data.sites = ExpectedSites(Entries(FetchedDocument, "sites"))

\* the document of the example: a type 1 record and a type 2 record
C4_Witness ==
    /\ Responded /\ httpResponse.success
    /\ Len(Entries(FetchedDocument, "sites")) = 2
    /\ Entries(FetchedDocument, "sites")[2].t = "object"
    /\ Prop(Entries(FetchedDocument, "sites")[2], "type") = Num(2)
    /\ httpResponse.data.sites =
         << [name |-> sA, key |-> sK, api |-> PlainApi, detail |-> Str(<<>>)] >>

\* in the unwrapping runs: the two site records fetched, and the sites parsed
InSites == FetchedDocument.v.sites.v
OutSites == httpResponse.data.sites
RawOf(site) == site.v.api.v
\* the parsed form of a site record whose api is kept as it is
KeptAsIs(site) ==
    [name |-> site.v.name, key |-> FieldOrEmpty(site, "key"),
     api |-> site.v.api, detail |-> FieldOrEmpty(site, "ext")]

\* C5 as stated: a type 1 site whose api is
\* 'http://host/api/cms-proxy?api=' + encodeURIComponent(u) is parsed to a
\* site whose api is u, for every original address u.
C5_UnwrapIsARoundTrip ==
    Responded =>
        \A i \in 1..Len(InSites) : \A u \in Originals :
            RawOf(InSites[i]) = Wrap(u)
                => /\ httpResponse.success
                   /\ Len(OutSites) = Len(InSites)
                   /\ OutSites[i].api = Str(u)

\* the cases in which the claim has the raw api kept
NotUnwrapped(raw) ==
    \/ ~Includes(raw, ProxyMarker)
    \/ IsThrow(URLQuery(raw))
    \/ LET originalApi == searchParamsGet(URLQuery(raw).v, sApi)
       IN  \/ originalApi = Null
           \/ originalApi = Str(<<>>)
           \/ IsThrow(decodeURIComponent(originalApi.v))

\* C6: when the raw api does not hold '/api/cms-proxy?api=', or holds it
\* but the URL does not parse, the api parameter is missing or empty, or its
\* decoding fails, the site is parsed with its raw api; no error is raised,
\* and the record beside it is parsed as it would be alone.
C6_RawApiKeptUnlessUnwrapped ==
    Responded =>
        LET emitted == {i \in 1..Len(InSites) : RawOf(InSites[i]) # <<>>}
            position(i) == Cardinality({j \in emitted : j <= i})
        IN  /\ httpResponse.success
            /\ Len(OutSites) = Cardinality(emitted)
            /\ \A i \in emitted :
                  NotUnwrapped(RawOf(InSites[i]))
                      => OutSites[position(i)] = KeptAsIs(InSites[i])

\* a raw api that holds the marker and parses, whose api parameter cannot
\* be decoded; it is kept, and so is the record after it
C6_Witness ==
    /\ Responded /\ httpResponse.success
    /\ Includes(RawOf(InSites[1]), ProxyMarker)
    /\ ~IsThrow(URLQuery(RawOf(InSites[1])))
    /\ Truthy(searchParamsGet(URLQuery(RawOf(InSites[1])).v, sApi))
    /\ IsThrow(decodeURIComponent(searchParamsGet(URLQuery(RawOf(InSites[1])).v, sApi).v))
    /\ OutSites = <<KeptAsIs(InSites[1]), KeptAsIs(Companion)>>

RECURSIVE ExpectedLives(_)
\* the live records with a name and a url, in input order
ExpectedLives(records) ==
    IF records = <<>> THEN <<>>
    ELSE LET r == Head(records)
             keep == FieldOrEmpty(r, "name") # Str(<<>>) /\ FieldOrEmpty(r, "url") # Str(<<>>)
         IN  (IF keep
              THEN << [ name |-> r.v.name, url |-> r.v.url,
                        epg |-> FieldOrEmpty(r, "epg"), ua |-> FieldOrEmpty(r, "ua") ] >>
              ELSE <<>>)
             \o ExpectedLives(Tail(records))

\* C7: the parsed lives are exactly the input live records with a non-empty
\* name and url, in input order, each as {name, url, epg or "", ua or ""}
\* with name and url as they came; a missing lives field gives none; and
\* totalLives and totalSites are the lengths of the two lists.
C7_LivesAreTheValidLiveRecords ==
    Responded /\ httpResponse.success =>
        /\ httpResponse.data.lives = ExpectedLives(Entries(FetchedDocument, "lives"))
        /\ httpResponse.data.totalLives = Len(httpResponse.data.lives)
        /\ httpResponse.data.totalSites = Len(httpResponse.data.sites)

\* a live record without epg and ua, and one whose url is a proxy wrapping
C7_Witness ==
    /\ Responded /\ httpResponse.success
    /\ httpResponse.data.totalLives = 2
    /\ httpResponse.data.lives[1] =
         [name |-> Str(<<"L">>), url |-> LiveUrl, epg |-> Str(<<>>), ua |-> Str(<<>>)]
    /\ httpResponse.data.lives[2].url = Str(Wrap(OrigPrefix))

\* C8 as stated: a request with a url whose upstream response has a success
\* status and a body that is not JSON ends in the 400 'not valid JSON'
\* response, whatever content type the response declares.
C8_NotJsonIsReportedAsSuch ==
    Responded /\ Fetched /\ ~upstream.body.valid
        => /\ httpResponse.status = 400
           /\ httpResponse.error = ErrNotJson

\* an entry the claim calls well-formed
WellFormedSite(e) ==
    /\ HasValue(e, "type") /\ e.v.type = Num(1)
    /\ HasValue(e, "name") /\ e.v.name.t = "string" /\ e.v.name # Str(<<>>)
    /\ HasValue(e, "api") /\ e.v.api.t = "string" /\ e.v.api # Str(<<>>)
WellFormedLive(e) ==
    /\ HasValue(e, "name") /\ e.v.name.t = "string" /\ e.v.name # Str(<<>>)
    /\ HasValue(e, "url") /\ e.v.url.t = "string" /\ e.v.url # Str(<<>>)
\* the field is missing or a sequence
SequenceOrMissing(doc, k) == HasValue(doc, k) => doc.v[k].t = "array"

\* C9 as stated: for a JSON document whose sites and lives are sequences the
\* handler succeeds, whatever malformed entries they hold, and its lists
\* hold every well-formed entry.
C9_BadEntriesNeverFailTheParse ==
    /\ Responded /\ Fetched /\ upstream.body.valid
    /\ FetchedDocument.t = "object"
    /\ SequenceOrMissing(FetchedDocument, "sites")
    /\ SequenceOrMissing(FetchedDocument, "lives")
    => /\ httpResponse.success
       /\ \A e \in {x \in SiteSamples : WellFormedSite(x)} :
             (\E i \in 1..Len(Entries(FetchedDocument, "sites")) :
                 Entries(FetchedDocument, "sites")[i] = e)
             => \E j \in 1..Len(httpResponse.data.sites) :
                   httpResponse.data.sites[j].name = e.v.name
       /\ \A e \in {x \in LiveSamples : WellFormedLive(x)} :
             (\E i \in 1..Len(Entries(FetchedDocument, "lives")) :
                 Entries(FetchedDocument, "lives")[i] = e)
             => \E j \in 1..Len(httpResponse.data.lives) :
                   httpResponse.data.lives[j].name = e.v.name

----------------------------------------------------------------------------
(* The public-IP probe: C10.                                               *)

\* the value a reply gives when it is well-formed: a success status and
\* either a JSON object whose ip is an IP-shaped string, or a text that is
\* not JSON and is IP-shaped once trimmed; None otherwise
WellFormedValue(reply) ==
    IF reply.kind # "response" \/ ~reply.ok \/ reply.body.kind # "text" THEN None
    ELSE IF reply.body.valid
    THEN LET ip == Prop(reply.body.value, "ip")
         IN  IF ip.t = "string" /\ IpRegexTest(ip.v) THEN ip ELSE None
    ELSE IF IpRegexTest(trim(reply.body.text)) THEN Str(trim(reply.body.text))
    ELSE None

\* C10 as stated: the services are contacted one at a time in the order of
\* the list, each at most once; a service that fails or answers with a body
\* that is malformed or not IP-shaped is passed over; the result is the value
\* of the first well-formed reply, after which no service is contacted; when
\* every service fails the result is null.
C10_FirstWellFormedReplyWins ==
    /\ Len(contacted) = Len(replies)
    /\ Len(contacted) <= Len(services)
    /\ \A i \in 1..Len(contacted) : contacted[i] = services[i]
    /\ \A i \in 1..(Len(replies) - 1) : WellFormedValue(replies[i]) = None
    /\ pc = "returned" =>
          LET last == WellFormedValue(replies[Len(replies)])
          IN  IF last = None
              THEN publicIP = Null /\ Len(contacted) = Len(services)
              ELSE publicIP = last

----------------------------------------------------------------------------
(* checkAdminPermission: who is let through.                               *)

Checked == pc = "checked"

\* the inputs of the call, read off the state
LocalStorage ==
    adminCall.NEXT_PUBLIC_STORAGE_TYPE \in {Undefined, Str(<<>>), Str(sLocalstorage)}
Authenticated ==
    /\ HasValue(adminCall.authInfo, "username")
    /\ adminCall.authInfo.v.username # Str(<<>>)
CallerName == adminCall.authInfo.v.username
IsOwner == CallerName = adminCall.USERNAME

StoreAsked == storeReply # None
ConfigAsked == configReply # None
StoreHasRecord == StoreAsked /\ storeReply.t = "object"
ConfigHasUsers ==
    /\ ConfigAsked
    /\ HasValue(configReply, "UserConfig")
    /\ HasValue(configReply.v.UserConfig, "Users")
LookupThrew ==
    \/ StoreAsked /\ IsThrow(storeReply)
    \/ ConfigAsked /\ ~ConfigHasUsers

\* the caller's entries in the static configuration, in order
ConfiguredEntries ==
    SelectSeq(configReply.v.UserConfig.v.Users.v, LAMBDA u : u.v.username = CallerName)

\* a record that has role admin and is not banned
AdminInGoodStanding(r) ==
    /\ r.v.role = Str(sAdmin)
    /\ ("banned" \in DOMAIN r.v => r.v.banned = Bool(FALSE))

\* the caller's record: the user store's if it has one, else the first entry
\* of the configuration; holds when that record is an admin's, not banned
RecordPermits ==
    IF StoreHasRecord THEN AdminInGoodStanding(storeReply)
    ELSE /\ ConfigHasUsers
         /\ ConfiguredEntries # <<>>
         /\ AdminInGoodStanding(ConfiguredEntries[1])

\* C11: checkAdminPermission succeeds exactly when the storage type is not
\* localstorage, the request carries an authenticated username, and the
\* caller is the owner (role owner) or no lookup threw and the caller's
\* record -- the user store's if it has one, the configuration's only
\* otherwise -- is an admin's and not banned (role admin).  Every other call
\* fails: 400 on localstorage, else 401 when unauthenticated, else 500 when
\* a lookup threw, else 403.  The configuration is never asked once the user
\* store has a record, a lookup is never made for localstorage, the
\* unauthenticated or the owner, and a banned non-owner never succeeds.
C11_PermissionFollowsTheRecord ==
    Checked =>
        /\ permission.success <=>
              /\ ~LocalStorage
              /\ Authenticated
              /\ IsOwner \/ (~LookupThrew /\ RecordPermits)
        /\ permission.success =>
              permission = Granted(CallerName, IF IsOwner THEN "owner" ELSE "admin")
        /\ ~permission.success =>
              permission.status = IF LocalStorage THEN 400
                                  ELSE IF ~Authenticated THEN 401
                                  ELSE IF LookupThrew THEN 500
                                  ELSE 403
        /\ StoreHasRecord => ~ConfigAsked
        /\ (LocalStorage \/ ~Authenticated \/ IsOwner) => ~StoreAsked /\ ~ConfigAsked
        /\ ConfigAsked => storeReply = Null

\* a caller the user store does not know is let through as admin on the
\* configuration's entry, which follows another user's
C11_Witness ==
    /\ Checked
    /\ permission.success
    /\ permission.role = "admin"
    /\ storeReply = Null
    /\ ConfigHasUsers
    /\ Len(configReply.v.UserConfig.v.Users.v) = 2
    /\ configReply.v.UserConfig.v.Users.v[1].v.username # CallerName
    /\ AdminInGoodStanding(ConfiguredEntries[1])

====
